---------------------------- MODULE Spec2Model ----------------------------
(***************************************************************************)
(* A model of trace-gen/tracegen.c: the integer-set stress test.  A driver *)
(* thread populates a sorted, sentinel-bounded singly linked list, spawns  *)
(* worker threads that meet it at a barrier, and each worker then performs *)
(* a fixed number of add / remove / contains operations on the shared list *)
(* while printing one trace record per operation.  The driver joins the    *)
(* workers and compares the measured list size with the expected one.      *)
(*                                                                         *)
(* The C int is scaled down: INT_MAX is a small number, INT_MIN is         *)
(* -INT_MAX - 1, and the option values range over that scaled int.         *)
(* malloc() never fails in this model (the code exits with 1 when it does).*)
(***************************************************************************)
EXTENDS Integers, Sequences, FiniteSets, TLC

\* ------------------------------------------------------------------ bounds
INT_MAX     == 3     \* <limits.h>, scaled
MaxOps      == 3     \* largest --operations
MaxInitial  == 2     \* largest --initial-size
MaxThreads  == 2     \* largest --num-threads
MaxCalls    == 4     \* calls made by the sequential caller of SetSpec
MaxRounds   == 2     \* rendezvous performed by each participant of BarrierSpec

INT_MIN == -INT_MAX - 1
VAL_MIN == INT_MIN
VAL_MAX == INT_MAX
NULL    == 0

VARIABLES
  cfg,      \* main's option variables: ops, initial, nb_threads, range, update, alternate
  status,   \* the process: "running", "rejected" (assert), "crashed", "exited",
            \* "hung" (set_size on a cyclic chain)
  mem,      \* the heap of node_t: address -> [val, next, live]
  set,      \* set->head (NULL before set_new)
  barrier,  \* barrier_t: [count, crossing] and whether barrier_init ran (valid)
  pc,       \* position of every thread (MAIN and the workers)
  mi,       \* main's loop variable i
  size,     \* main's size
  ret,      \* main's ret
  data,     \* thread_data_t of every worker
  last,     \* test()'s local last, per worker
  val,      \* test()'s local val, per worker
  rec,      \* the last trace record each worker wrote to stderr: [tag, val]
  call,     \* (history) the last set call each worker made: [fn, arg, res], and
            \* whether (op & 0x01) == 0 held where the code tested it to choose fn (even)
  hist,     \* (history) per worker: set_add calls made (adds), set_add calls that
            \* returned true (added), set_remove calls that returned true (removed)
  wprev,    \* a set function's local prev, per worker (RaceSpec)
  wnext,    \* a set function's local next, per worker (RaceSpec)
  calls,    \* (history) SetSpec: calls made; okadd/okrem: those that returned true
  okadd,
  okrem,
  strict,   \* (history) SetSpec: every value passed so far lay strictly between the sentinels
  since,    \* (history) SetSpec: per value v, the set_add(v) calls that have returned
            \* since the last set_remove(v) call
  entered,  \* (history) per thread, barrier_cross calls entered
  left      \* (history) per thread, barrier_cross calls returned

vars == << cfg, status, mem, set, barrier, pc, mi, size, ret, data, last, val,
           rec, call, hist, wprev, wnext, calls, okadd, okrem, strict, since,
           entered, left >>

MAIN    == -1
Workers == 0 .. (MaxThreads - 1)
Threads == {MAIN} \cup Workers

Min(S) == CHOOSE x \in S : \A y \in S : x <= y

\* ------------------------------------------------------------ linked list

\* A pointer the code may dereference: not NULL and not a freed node.
Valid(m, a) == a # NULL /\ a \in 1 .. Len(m) /\ m[a].live

\* new_node(): malloc returns a free chunk (a freed node is reused first).
new_node(m, v, next) ==
  LET freed == {a \in 1 .. Len(m) : ~m[a].live}
      a     == IF freed = {} THEN Len(m) + 1 ELSE Min(freed)
      n     == [val |-> v, next |-> next, live |-> TRUE]
  IN  [mem  |-> IF a > Len(m) THEN Append(m, n) ELSE [m EXCEPT ![a] = n],
       node |-> a]

\* free(): the node's content is gone.
free_node(m, a) == [m EXCEPT ![a] = [val |-> 0, next |-> NULL, live |-> FALSE]]

\* set_new(): max = new_node(VAL_MAX, NULL); min = new_node(VAL_MIN, max); head = min.
set_new ==
  LET mx == new_node(<< >>, VAL_MAX, NULL)
      mn == new_node(mx.mem, VAL_MIN, mx.node)
  IN  [mem |-> mn.mem, set |-> mn.node]

\* The traversal shared by set_contains, set_add and set_remove:
\*   while (next->val < val) { prev = next; next = prev->next; }
\* ok is FALSE when next->val dereferences NULL or a freed node.
RECURSIVE locate(_, _, _, _)
locate(m, prev, next, v) ==
  IF ~Valid(m, next) THEN [prev |-> prev, next |-> next, ok |-> FALSE]
  ELSE IF m[next].val < v THEN locate(m, next, m[next].next, v)
  ELSE [prev |-> prev, next |-> next, ok |-> TRUE]

set_contains(m, s, v) ==
  LET w == locate(m, s, m[s].next, v)
  IN  [ok |-> w.ok, result |-> IF w.ok THEN m[w.next].val = v ELSE FALSE, mem |-> m]

\* set_add() without the test of next->val against val: it splices a node in always.
set_add_always(m, s, v) ==
  LET w  == locate(m, s, m[s].next, v)
      nn == new_node(m, v, w.next)
  IN  [ok |-> w.ok, result |-> w.ok,
       mem |-> IF w.ok THEN [nn.mem EXCEPT ![w.prev].next = nn.node] ELSE m]

set_add(m, s, v) ==
  LET w      == locate(m, s, m[s].next, v)
      result == IF w.ok THEN m[w.next].val # v ELSE FALSE
      nn     == new_node(m, v, w.next)
  IN  [ok |-> w.ok, result |-> result,
       mem |-> IF result THEN [nn.mem EXCEPT ![w.prev].next = nn.node] ELSE m]

set_remove(m, s, v) ==
  LET w      == locate(m, s, m[s].next, v)
      result == IF w.ok THEN m[w.next].val = v ELSE FALSE
  IN  [ok |-> w.ok, result |-> result,
       mem |-> IF result
               THEN free_node([m EXCEPT ![w.prev].next = m[w.next].next], w.next)
               ELSE m]

\* set_size(): node = head->next; while (node->next != NULL) { size++; node = node->next; }
\* ok is FALSE when node->next dereferences NULL or a freed node; loops is TRUE when
\* the chain is a cycle, on which the loop never ends.
RECURSIVE count(_, _, _)
count(m, node, n) ==
  IF n > Len(m) THEN [ok |-> TRUE, loops |-> TRUE, size |-> n]
  ELSE IF ~Valid(m, node) THEN [ok |-> FALSE, loops |-> FALSE, size |-> n]
  ELSE IF m[node].next # NULL THEN count(m, m[node].next, n + 1)
  ELSE [ok |-> TRUE, loops |-> FALSE, size |-> n]

set_size(m, s) == count(m, m[s].next, 0)

\* The values of the nodes reached from a, in chain order (at most fuel nodes).
RECURSIVE Chain(_, _, _)
Chain(m, a, fuel) ==
  IF a = NULL \/ fuel = 0 \/ a > Len(m) THEN << >>
  ELSE << a >> \o Chain(m, m[a].next, fuel - 1)

ChainVals(m, s) == LET c == Chain(m, s, Len(m) + 1) IN [k \in 1 .. Len(c) |-> m[c[k]].val]


\* ------------------------------------------------------- record shapes

NoData == [nb_add |-> 0, nb_remove |-> 0, nb_contains |-> 0, nb_found |-> 0,
           ops |-> 0, diff |-> 0]
NoRec  == [tag |-> -1, val |-> 0]
NoCall == [fn |-> "none", arg |-> 0, res |-> FALSE, even |-> FALSE]
NoHist == [adds |-> 0, added |-> 0, removed |-> 0]

driverVars == << cfg, barrier, pc, mi, size, ret, data, last, val, rec, call, hist,
                 wprev, wnext, entered, left >>
setHist    == << calls, okadd, okrem, strict, since >>

\* What the driver's variables hold while only the list (or only the barrier) is exercised.
DriverIdle ==
  /\ cfg = [ops |-> 0, initial |-> 0, nb_threads |-> 1, range |-> 1, update |-> 0,
            alternate |-> 1]
  /\ mi = 0 /\ size = 0 /\ ret = 0
  /\ data = [t \in Workers |-> NoData]
  /\ last = [t \in Workers |-> -1]
  /\ val  = [t \in Workers |-> 0]
  /\ rec  = [t \in Workers |-> NoRec]
  /\ call = [t \in Workers |-> NoCall]
  /\ hist = [t \in Workers |-> NoHist]
  /\ wprev = [t \in Workers |-> NULL]
  /\ wnext = [t \in Workers |-> NULL]

\* ------------------------------------------- the list, called sequentially

\* The values a caller passes: every val_t above VAL_MIN that the driver can draw or
\* that lies between the sentinels (rand_range(range) + 1 reaches VAL_MAX when range
\* is INT_MAX).
SetVals == (VAL_MIN + 1) .. VAL_MAX
Between(v) == VAL_MIN < v /\ v < VAL_MAX

SetInit ==
  /\ DriverIdle
  /\ status = "running"
  /\ mem = set_new.mem
  /\ set = set_new.set
  /\ barrier = [count |-> 0, crossing |-> 0, valid |-> FALSE]
  /\ pc = [t \in Threads |-> "idle"]
  /\ entered = [t \in Threads |-> 0]
  /\ left = [t \in Threads |-> 0]
  /\ calls = 0 /\ okadd = 0 /\ okrem = 0 /\ strict = TRUE
  /\ since = [v \in SetVals |-> 0]

\* One call of a set function by the only caller; a call that dereferences NULL
\* ends the process.
Called(r, v) ==
  /\ calls' = calls + 1
  /\ strict' = (strict /\ Between(v))
  /\ status' = IF r.ok THEN "running" ELSE "crashed"
  /\ mem' = IF r.ok THEN r.mem ELSE mem
  /\ UNCHANGED << set, driverVars >>

CallAdd(v) ==
  /\ status = "running" /\ calls < MaxCalls
  /\ LET r == set_add(mem, set, v)
     IN  /\ Called(r, v)
         /\ okadd' = IF r.ok /\ r.result THEN okadd + 1 ELSE okadd
         /\ okrem' = okrem
         /\ since' = IF r.ok THEN [since EXCEPT ![v] = @ + 1] ELSE since

CallRemove(v) ==
  /\ status = "running" /\ calls < MaxCalls
  /\ LET r == set_remove(mem, set, v)
     IN  /\ Called(r, v)
         /\ okrem' = IF r.ok /\ r.result THEN okrem + 1 ELSE okrem
         /\ okadd' = okadd
         /\ since' = IF r.ok THEN [since EXCEPT ![v] = 0] ELSE since

CallContains(v) ==
  /\ status = "running" /\ calls < MaxCalls
  /\ LET r == set_contains(mem, set, v)
     IN  /\ Called(r, v)
         /\ UNCHANGED << okadd, okrem, since >>

SetNext ==
  \E v \in SetVals : CallAdd(v) \/ CallRemove(v) \/ CallContains(v)

SetSpec == SetInit /\ [][SetNext]_vars

\* The chain from head: strictly increasing, minimum sentinel first, maximum sentinel
\* last with a NULL next; hence no value twice.
Sorted(m, s) ==
  LET c == ChainVals(m, s)
      a == Chain(m, s, Len(m) + 1)
  IN  /\ Len(c) >= 2
      /\ c[1] = VAL_MIN
      /\ c[Len(c)] = VAL_MAX
      /\ m[a[Len(a)]].next = NULL
      /\ \A k \in 1 .. (Len(a) - 1) : m[a[k]].live /\ c[k] < c[k + 1]

\* C2: with the set functions called one at a time and only with values strictly
\* between the sentinels, the chain from head is strictly increasing, starts with the
\* minimum sentinel, ends with the maximum sentinel (next = NULL), no duplicates.
C2_SortedChain == (status = "running" /\ strict) => Sorted(mem, set)

\* Witness of C2: three distinct values are in the chain and one was removed before.
C2_Witness ==
  /\ strict /\ okadd >= 3 /\ okrem >= 1
  /\ Len(ChainVals(mem, set)) = 4 /\ Sorted(mem, set)

\* C3 as stated: after every sequence of set_add / set_remove calls on a fresh set,
\* set_size() returns (adds that returned true) - (removes that returned true).
C3_SizeIsAddsMinusRemoves ==
  status = "running" =>
    /\ set_size(mem, set).ok /\ ~set_size(mem, set).loops
    /\ set_size(mem, set).size = okadd - okrem

\* C3 for values strictly between the sentinels (holds; the sentinel case is C10's).
C3_SizeBetweenSentinels ==
  (status = "running" /\ strict) =>
    /\ set_size(mem, set).ok
    /\ set_size(mem, set).size = okadd - okrem

\* set_add(v), set_contains(v), set_remove(v), set_contains(v) called in a row on the
\* set (m, s): every call returns, the first lookup finds v, the removal succeeds,
\* the second lookup does not find v.
AddThenProbe(m, s, v) ==
  LET a  == set_add(m, s, v)
      c1 == set_contains(a.mem, s, v)
      r  == set_remove(c1.mem, s, v)
      c2 == set_contains(r.mem, s, v)
  IN  /\ a.ok
      /\ c1.ok /\ c1.result
      /\ r.ok /\ r.result
      /\ c2.ok /\ ~c2.result

\* C12 as stated: single-threaded, for every set state and every value v strictly
\* between the sentinels, after set_add(v) a set_contains(v) returns true, a
\* set_remove(v) right after returns true, and a set_contains(v) after that returns
\* false.
C12_AddContainsRemove ==
  status = "running" => \A v \in SetVals : Between(v) => AddThenProbe(mem, set, v)

\* C12 for the set states reached with values strictly between the sentinels only
\* (holds; the set state that breaks C12 is the one C10's removal leaves).
C12_BetweenSentinels ==
  (status = "running" /\ strict) =>
    \A v \in SetVals : Between(v) => AddThenProbe(mem, set, v)

\* A step in which a set_add(v) call returns although an earlier set_add(v) has
\* returned and no set_remove(v) was called since: it returns false and changes
\* neither the heap, nor the chain of values, nor what set_size() returns.
C13_SecondAdd ==
  \A v \in SetVals :
    (since[v] >= 1 /\ since'[v] = since[v] + 1) =>
      /\ okadd' = okadd
      /\ mem' = mem
      /\ ChainVals(mem', set') = ChainVals(mem, set)
      /\ set_size(mem', set') = set_size(mem, set)

\* C13: a second set_add(v) issued before any set_remove(v) returns false and leaves
\* the set unchanged: same chain of values, same set_size().
C13_SecondAddChangesNothing == [][C13_SecondAdd]_vars

\* Witness of C13: set_add(2) was called twice with no set_remove(2) in between (but
\* with other calls in between), and only the first call added a node.
C13_Witness ==
  /\ status = "running" /\ calls = 4
  /\ since[2] = 2 /\ since[1] = 0
  /\ okadd = 2 /\ okrem = 1
  /\ Len(ChainVals(mem, set)) = 3


\* ----------------------------------------------------------------- barrier

RECURSIVE Sum(_, _)
Sum(f, S) == IF S = {} THEN 0 ELSE LET x == CHOOSE y \in S : TRUE IN f[x] + Sum(f, S \ {x})

\* barrier_init(b, n)
barrier_init(n) == [count |-> n, crossing |-> 0, valid |-> TRUE]

\* barrier_cross(), from the lock to the branch: b->crossing++ under the mutex.
Arrive(b) == [b EXCEPT !.crossing = b.crossing + 1]

\* if (b->crossing < b->count)
MustWait(b) == b.crossing < b.count

\* barrier_cross(b) called by t at position `from`, up to the point where t either
\* blocks in pthread_cond_wait (which releases the mutex) or, being the last to
\* arrive, wakes every waiter, resets crossing, unlocks and returns to `after`.
\* The mutex makes this section atomic.
BarrierEnter(t, from, after) ==
  /\ status = "running"
  /\ pc[t] = from
  /\ entered' = [entered EXCEPT ![t] = @ + 1]
  /\ LET b == Arrive(barrier)
     IN  IF MustWait(b)
         THEN /\ barrier' = b
              /\ pc' = [pc EXCEPT ![t] = "wait"]
              /\ left' = left
         ELSE /\ barrier' = [b EXCEPT !.crossing = 0]
              /\ pc' = [u \in Threads |->
                          IF u = t THEN after
                          ELSE IF pc[u] = "wait" THEN "woken" ELSE pc[u]]
              /\ left' = [left EXCEPT ![t] = @ + 1]

\* pthread_cond_wait may return without any broadcast (a spurious wake-up, which
\* POSIX allows); the code does not re-test the count in a loop.
SpuriousWakeup(t) ==
  /\ status = "running"
  /\ pc[t] = "wait"
  /\ pc' = [pc EXCEPT ![t] = "woken"]
  /\ UNCHANGED << barrier, entered, left >>

\* A woken waiter re-acquires the mutex, unlocks it and returns from barrier_cross.
BarrierReturn(t, after) ==
  /\ status = "running"
  /\ pc[t] = "woken"
  /\ pc' = [pc EXCEPT ![t] = after]
  /\ left' = [left EXCEPT ![t] = @ + 1]
  /\ UNCHANGED << barrier, entered >>

\* --------------------------------- the barrier alone, crossed repeatedly

\* The participants of a barrier for n: the driver and n - 1 workers.
Participants(n) == {MAIN} \cup (0 .. (n - 2))

notBarrier == << cfg, status, mem, set, mi, size, ret, data, last, val, rec, call,
                 hist, wprev, wnext, calls, okadd, okrem, strict, since >>

BarrierInit ==
  /\ DriverIdle
  /\ status = "running"
  /\ mem = << >> /\ set = NULL
  /\ \E n \in 1 .. (MaxThreads + 1) : barrier = barrier_init(n)
  /\ pc = [t \in Threads |-> "idle"]
  /\ entered = [t \in Threads |-> 0]
  /\ left = [t \in Threads |-> 0]
  /\ calls = 0 /\ okadd = 0 /\ okrem = 0 /\ strict = TRUE
  /\ since = [v \in SetVals |-> 0]

BCross(t) ==
  /\ t \in Participants(barrier.count)
  /\ entered[t] < MaxRounds
  /\ BarrierEnter(t, "idle", "idle")
  /\ UNCHANGED notBarrier

BSpurious(t) == SpuriousWakeup(t) /\ UNCHANGED notBarrier

BReturn(t) == BarrierReturn(t, "idle") /\ UNCHANGED notBarrier

BarrierNext == \E t \in Threads : BCross(t) \/ BSpurious(t) \/ BReturn(t)

BarrierSpec == BarrierInit /\ [][BarrierNext]_vars

Arrived == Sum(entered, Threads)

\* C1: no call of barrier_cross() returns before the Nth participant of its round has
\* entered: a participant that has returned from its k-th call implies that k * N
\* calls have been entered.
C1_NoEarlyRelease ==
  \A t \in Threads : left[t] * barrier.count <= Arrived

\* The arrival count is the number of arrivals of the round in progress: it is back
\* to 0 whenever a round is complete.
C14_CountIsReset == barrier.crossing = Arrived % barrier.count

\* C14: the barrier is reusable.  When the N participants cross it twice (a
\* participant may enter its second round before the others have returned from the
\* first), the arrival count is back to 0 after each round, nobody returns from its
\* second call before all N have entered theirs, and no participant is left blocked:
\* while somebody waits, some participant can still arrive or return.
C14_Reusable ==
  LET P == Participants(barrier.count)
  IN  /\ C14_CountIsReset
      /\ (\E t \in P : left[t] = 2) => \A u \in P : entered[u] = 2
      /\ (\E t \in P : pc[t] = "wait") =>
            \E u \in P : pc[u] = "woken" \/ (pc[u] = "idle" /\ entered[u] < MaxRounds)


\* ------------------------------------------------------------- the driver

\* rand_range(n, seed): (int)(erand48(seed) * n), any value of [0, n).
rand_range(n) == 0 .. (n - 1)

\* The operation-class rolls rand_range(100) the model draws, and the update rates.
Rolls       == {0, 1, 99}
UpdateRates == {0, 50, 100}

\* main's assertions without the comparison of range with initial.
ValidCfg_AnyRange(c) ==
  /\ c.ops >= 0
  /\ c.initial >= 0
  /\ c.nb_threads > 0
  /\ c.range > 0
  /\ c.update >= 0 /\ c.update <= 100

\* main's assertions on the options.
ValidCfg(c) ==
  /\ c.ops >= 0
  /\ c.initial >= 0
  /\ c.nb_threads > 0
  /\ c.range > 0 /\ c.range >= c.initial
  /\ c.update >= 0 /\ c.update <= 100

Cfgs(threads) ==
  [ops : 0 .. MaxOps, initial : 0 .. MaxInitial, nb_threads : threads,
   range : 1 .. INT_MAX, update : UpdateRates, alternate : {0, 1}]

\* Option values that break exactly one assertion.
BadCfgs ==
  LET base == [ops |-> 1, initial |-> 1, nb_threads |-> 1, range |-> 2, update |-> 50,
               alternate |-> 1]
  IN  { [base EXCEPT !.ops = -1], [base EXCEPT !.initial = -1],
        [base EXCEPT !.nb_threads = 0], [base EXCEPT !.range = 0],
        [base EXCEPT !.initial = 2, !.range = 1],
        [base EXCEPT !.update = -1], [base EXCEPT !.update = 101] }

\* What an uninitialised barrier_t on main's stack may hold.
Garbage(n) ==
  [count : 0 .. (n + 2), crossing : {0, 1}, valid : {FALSE}]

DriverInit(cs) ==
  /\ cfg \in cs
  /\ status = "running"
  /\ mem = << >> /\ set = NULL
  /\ barrier = [count |-> 0, crossing |-> 0, valid |-> FALSE]
  /\ pc = [t \in Threads |-> IF t = MAIN THEN "configure" ELSE "idle"]
  /\ mi = 0 /\ size = 0 /\ ret = 0
  /\ data = [t \in Workers |-> NoData]
  /\ last = [t \in Workers |-> -1]
  /\ val  = [t \in Workers |-> 0]
  /\ rec  = [t \in Workers |-> NoRec]
  /\ call = [t \in Workers |-> NoCall]
  /\ hist = [t \in Workers |-> NoHist]
  /\ wprev = [t \in Workers |-> NULL]
  /\ wnext = [t \in Workers |-> NULL]
  /\ entered = [t \in Threads |-> 0]
  /\ left = [t \in Threads |-> 0]
  /\ calls = 0 /\ okadd = 0 /\ okrem = 0 /\ strict = TRUE
  /\ since = [v \in SetVals |-> 0]

workerVars == << data, last, val, rec, call, hist, wprev, wnext >>
barrierVars == << barrier, entered, left >>

Goto(t, p) == pc' = [pc EXCEPT ![t] = p]

\* The assertions of main, then set_new().
MConfigure ==
  /\ status = "running" /\ pc[MAIN] = "configure"
  /\ IF ValidCfg(cfg)
     THEN /\ mem' = set_new.mem
          /\ set' = set_new.set
          /\ Goto(MAIN, "populate")
          /\ status' = status
     ELSE /\ status' = "rejected"
          /\ UNCHANGED << mem, set, pc >>
  /\ mi' = 0
  /\ UNCHANGED << cfg, size, ret, workerVars, barrierVars, setHist >>

\* The populate loop counting every draw, whether or not set_add added it.
MPopulate_CountAll ==
  /\ status = "running" /\ pc[MAIN] = "populate"
  /\ mi < cfg.initial
  /\ \E r \in rand_range(cfg.range) :
       LET a == set_add(mem, set, r + 1)
       IN  /\ mem' = a.mem
           /\ mi' = mi + 1
  /\ UNCHANGED << cfg, status, set, pc, size, ret, workerVars, barrierVars, setHist >>

\* while (i < initial) { val = rand_range(range) + 1; if (set_add(set, val)) i++; }
MPopulate ==
  /\ status = "running" /\ pc[MAIN] = "populate"
  /\ mi < cfg.initial
  /\ \E r \in rand_range(cfg.range) :
       LET a == set_add(mem, set, r + 1)
       IN  /\ mem' = a.mem
           /\ mi' = IF a.result THEN mi + 1 ELSE mi
  /\ UNCHANGED << cfg, status, set, pc, size, ret, workerVars, barrierVars, setHist >>

\* size = set_size(set);
MPopulated ==
  /\ status = "running" /\ pc[MAIN] = "populate"
  /\ mi >= cfg.initial
  /\ size' = set_size(mem, set).size
  /\ mi' = 0
  /\ Goto(MAIN, "binit")
  /\ UNCHANGED << cfg, status, mem, set, ret, workerVars, barrierVars, setHist >>

\* for (i=0; i<size; i++) barrier_init(&barrier, nb_threads + 1);
\* the call is the body of the loop, so it runs size times.
MBarrierInit ==
  /\ status = "running" /\ pc[MAIN] = "binit"
  /\ mi < size
  /\ barrier' = barrier_init(cfg.nb_threads + 1)
  /\ mi' = mi + 1
  /\ UNCHANGED << cfg, status, mem, set, pc, size, ret, workerVars, entered, left,
                  setHist >>

\* The loop ends; a barrier that was never initialised holds whatever the stack held.
MBarrierReady ==
  /\ status = "running" /\ pc[MAIN] = "binit"
  /\ mi >= size
  /\ IF barrier.valid THEN barrier' = barrier ELSE barrier' \in Garbage(cfg.nb_threads)
  /\ mi' = 0
  /\ Goto(MAIN, "spawn")
  /\ UNCHANGED << cfg, status, mem, set, size, ret, workerVars, entered, left, setHist >>

\* for (i = 0; i < nb_threads; i++) { data[i] = ...; pthread_create(test, &data[i]); }
MSpawn ==
  /\ status = "running" /\ pc[MAIN] = "spawn"
  /\ mi < cfg.nb_threads
  /\ data' = [data EXCEPT ![mi] = [NoData EXCEPT !.ops = cfg.ops]]
  /\ pc' = [pc EXCEPT ![mi] = "cross"]
  /\ mi' = mi + 1
  /\ UNCHANGED << cfg, status, mem, set, size, ret, last, val, rec, call, hist,
                  wprev, wnext, barrierVars, setHist >>

MSpawned ==
  /\ status = "running" /\ pc[MAIN] = "spawn"
  /\ mi >= cfg.nb_threads
  /\ Goto(MAIN, "cross")
  /\ UNCHANGED << cfg, status, mem, set, mi, size, ret, workerVars, barrierVars, setHist >>

notSync == << cfg, status, mem, set, size, ret, workerVars, setHist >>

\* barrier_cross(&barrier) in main, then the join loop starts at i = 0.
MCross ==
  /\ BarrierEnter(MAIN, "cross", "join")
  /\ mi' = 0
  /\ UNCHANGED notSync

MSpurious == SpuriousWakeup(MAIN) /\ UNCHANGED mi /\ UNCHANGED notSync

MReturn == BarrierReturn(MAIN, "join") /\ mi' = 0 /\ UNCHANGED notSync

\* The join loop not waiting for the thread to terminate.
MJoin_NoWait ==
  /\ status = "running" /\ pc[MAIN] = "join"
  /\ mi < cfg.nb_threads
  /\ mi' = mi + 1
  /\ UNCHANGED << cfg, status, mem, set, pc, size, ret, workerVars, barrierVars, setHist >>

\* for (i = 0; i < nb_threads; i++) pthread_join(threads[i], NULL);
MJoin ==
  /\ status = "running" /\ pc[MAIN] = "join"
  /\ mi < cfg.nb_threads
  /\ pc[mi] = "done"
  /\ mi' = mi + 1
  /\ UNCHANGED << cfg, status, mem, set, pc, size, ret, workerVars, barrierVars, setHist >>

MJoined ==
  /\ status = "running" /\ pc[MAIN] = "join"
  /\ mi >= cfg.nb_threads
  /\ mi' = 0
  /\ Goto(MAIN, "report")
  /\ UNCHANGED << cfg, status, mem, set, size, ret, workerVars, barrierVars, setHist >>

\* for (i = 0; i < nb_threads; i++) { ...; size += data[i].diff; }
MReport ==
  /\ status = "running" /\ pc[MAIN] = "report"
  /\ mi < cfg.nb_threads
  /\ size' = size + data[mi].diff
  /\ mi' = mi + 1
  /\ UNCHANGED << cfg, status, mem, set, pc, ret, workerVars, barrierVars, setHist >>

\* set_delete(): free every node of the chain from head.
RECURSIVE set_delete(_, _)
set_delete(m, node) ==
  IF ~Valid(m, node) THEN m ELSE set_delete(free_node(m, node), m[node].next)

\* ret = (set_size(set) != size); set_delete(set); return ret;
MCheck ==
  /\ status = "running" /\ pc[MAIN] = "report"
  /\ mi >= cfg.nb_threads
  /\ LET sz == set_size(mem, set)
     IN  IF sz.ok /\ ~sz.loops
         THEN /\ ret' = IF sz.size # size THEN 1 ELSE 0
              /\ mem' = set_delete(mem, set)
              /\ status' = "exited"
              /\ Goto(MAIN, "done")
         ELSE /\ status' = IF sz.loops THEN "hung" ELSE "crashed"
              /\ UNCHANGED << ret, mem, pc >>
  /\ UNCHANGED << cfg, set, mi, size, workerVars, barrierVars, setHist >>


\* ------------------------------------------------------------ the workers
\* test(): barrier_cross, then `while (d->ops--)` one operation per iteration.
\* In Spec every set function runs to completion in one step (with one worker that
\* is exact; RaceSpec interleaves the functions' memory accesses).

WCross(t) == t \in Workers /\ BarrierEnter(t, "cross", "loop") /\ UNCHANGED mi /\ UNCHANGED notSync

WSpurious(t) == t \in Workers /\ SpuriousWakeup(t) /\ UNCHANGED mi /\ UNCHANGED notSync

WReturn(t) == t \in Workers /\ BarrierReturn(t, "loop") /\ UNCHANGED mi /\ UNCHANGED notSync

\* while (d->ops--) with ops > 0 on entry
Working(t) == status = "running" /\ t \in Workers /\ pc[t] = "loop" /\ data[t].ops # 0

\* The counters after each kind of operation (d->ops-- included).
\* The add branch moving the size-delta whether or not the add succeeded.
AfterAdd_DiffAlways(d, result) ==
  [d EXCEPT !.ops = @ - 1, !.diff = @ + 1, !.nb_add = @ + 1]

\* The add branch counting only the adds that succeeded.
AfterAdd_OnSuccess(d, result) ==
  [d EXCEPT !.ops = @ - 1, !.diff = IF result THEN @ + 1 ELSE @,
            !.nb_add = IF result THEN @ + 1 ELSE @]

AfterAdd(d, result) ==
  [d EXCEPT !.ops = @ - 1, !.diff = IF result THEN @ + 1 ELSE @, !.nb_add = @ + 1]

\* The remove branch counting only the removes that succeeded.
AfterRemove_OnSuccess(d, result) ==
  [d EXCEPT !.ops = @ - 1, !.diff = IF result THEN @ - 1 ELSE @,
            !.nb_remove = IF result THEN @ + 1 ELSE @]

AfterRemove(d, result) ==
  [d EXCEPT !.ops = @ - 1, !.diff = IF result THEN @ - 1 ELSE @, !.nb_remove = @ + 1]

\* The lookup branch counting a hit before it counts the lookup.
AfterContains_FoundFirst(d, result) ==
  [d EXCEPT !.ops = @ - 1, !.nb_found = @ + 1,
            !.nb_contains = IF result THEN @ + 1 ELSE @]

AfterContains(d, result) ==
  [d EXCEPT !.ops = @ - 1, !.nb_found = IF result THEN @ + 1 ELSE @,
            !.nb_contains = @ + 1]

\* fprintf(stderr, "<tag> - %d\n", val): every record prints the local val.  In the
\* alternate removal the value removed is last, the value printed is val.
Record(tag, v) == [tag |-> tag, val |-> v]

\* A set function dereferenced NULL: the process dies, nothing else changes.
Crash ==
  /\ status' = "crashed"
  /\ UNCHANGED << mem, workerVars >>

\* The operation's effects once the set function returned r.
Done(t, r, d, l, v, tag, fn, arg, even) ==
  /\ status' = status
  /\ mem' = r.mem
  /\ data' = [data EXCEPT ![t] = d]
  /\ last' = [last EXCEPT ![t] = l]
  /\ val' = [val EXCEPT ![t] = v]
  /\ rec' = [rec EXCEPT ![t] = Record(tag, v)]
  /\ call' = [call EXCEPT ![t] = [fn |-> fn, arg |-> arg, res |-> r.result,
                                  even |-> even]]
  /\ hist' = [hist EXCEPT
                ![t].adds = IF fn = "add" THEN @ + 1 ELSE @,
                ![t].added = IF fn = "add" /\ r.result THEN @ + 1 ELSE @,
                ![t].removed = IF fn = "remove" /\ r.result THEN @ + 1 ELSE @]
  /\ wprev' = [wprev EXCEPT ![t] = NULL]
  /\ wnext' = [wnext EXCEPT ![t] = NULL]

workerFrame == << cfg, set, pc, mi, size, ret, barrierVars, setHist >>

\* The alternate insertion remembering the drawn value even when set_add failed.
WAltAdd_LastAlways(t) ==
  /\ Working(t)
  /\ cfg.alternate # 0 /\ last[t] < 0
  /\ \E op \in Rolls, r \in rand_range(cfg.range) :
       /\ op < cfg.update
       /\ LET v == r + 1
              a == set_add(mem, set, v)
          IN  IF a.ok
              THEN Done(t, a, AfterAdd(data[t], a.result), v, v, 0, "add", v, FALSE)
              ELSE Crash
  /\ UNCHANGED workerFrame

\* alternate, last < 0: val = rand_range(range) + 1; if (set_add(val)) { diff++; last = val; } nb_add++;
WAltAdd(t) ==
  /\ Working(t)
  /\ cfg.alternate # 0 /\ last[t] < 0
  /\ \E op \in Rolls, r \in rand_range(cfg.range) :
       /\ op < cfg.update
       /\ LET v == r + 1
              a == set_add(mem, set, v)
          IN  IF a.ok
              THEN Done(t, a, AfterAdd(data[t], a.result),
                        IF a.result THEN v ELSE last[t], v, 0, "add", v, FALSE)
              ELSE Crash
  /\ UNCHANGED workerFrame

\* alternate, last >= 0: if (set_remove(last)) diff--; nb_remove++; last = -1;
WAltRemove(t) ==
  /\ Working(t)
  /\ cfg.alternate # 0 /\ last[t] >= 0
  /\ \E op \in Rolls :
       /\ op < cfg.update
       /\ LET a == set_remove(mem, set, last[t])
          IN  IF a.ok
              THEN Done(t, a, AfterRemove(data[t], a.result), -1, val[t], 1,
                        "remove", last[t], FALSE)
              ELSE Crash
  /\ UNCHANGED workerFrame

\* not alternate, even roll: val = rand_range(range) + 1; if (set_add(val)) diff++; nb_add++;
WRandAdd(t) ==
  /\ Working(t)
  /\ cfg.alternate = 0
  /\ \E op \in Rolls, r \in rand_range(cfg.range) :
       /\ op < cfg.update /\ op % 2 = 0
       /\ LET v == r + 1
              a == set_add(mem, set, v)
          IN  IF a.ok
              THEN Done(t, a, AfterAdd(data[t], a.result), last[t], v, 0, "add", v,
                        op % 2 = 0)
              ELSE Crash
  /\ UNCHANGED workerFrame

\* not alternate, odd roll: if (set_remove(val)) diff--; nb_remove++;
WRandRemove(t) ==
  /\ Working(t)
  /\ cfg.alternate = 0
  /\ \E op \in Rolls, r \in rand_range(cfg.range) :
       /\ op < cfg.update /\ op % 2 = 1
       /\ LET v == r + 1
              a == set_remove(mem, set, v)
          IN  IF a.ok
              THEN Done(t, a, AfterRemove(data[t], a.result), last[t], v, 1, "remove", v,
                        op % 2 = 0)
              ELSE Crash
  /\ UNCHANGED workerFrame

\* roll >= update: val = rand_range(range) + 1; if (set_contains(val)) nb_found++; nb_contains++;
WLookup(t) ==
  /\ Working(t)
  /\ \E op \in Rolls, r \in rand_range(cfg.range) :
       /\ op >= cfg.update
       /\ LET v == r + 1
              a == set_contains(mem, set, v)
          IN  IF a.ok
              THEN Done(t, a, AfterContains(data[t], a.result), last[t], v, 2,
                        "contains", v, FALSE)
              ELSE Crash
  /\ UNCHANGED workerFrame

\* while (d->ops--) with ops = 0: the loop ends (ops is left at -1) and test() returns.
WExit(t) ==
  /\ status = "running" /\ t \in Workers /\ pc[t] = "loop" /\ data[t].ops = 0
  /\ data' = [data EXCEPT ![t].ops = @ - 1]
  /\ Goto(t, "done")
  /\ UNCHANGED << cfg, status, mem, set, mi, size, ret, last, val, rec, call, hist,
                  wprev, wnext, barrierVars, setHist >>

MainStep ==
  \/ MConfigure \/ MPopulate \/ MPopulated \/ MBarrierInit \/ MBarrierReady
  \/ MSpawn \/ MSpawned \/ MCross \/ MReturn
  \/ MJoin \/ MJoined \/ MReport \/ MCheck

WorkerStep(t) ==
  \/ WCross(t) \/ WReturn(t)
  \/ WAltAdd(t) \/ WAltRemove(t) \/ WRandAdd(t) \/ WRandRemove(t) \/ WLookup(t)
  \/ WExit(t)

\* The steps a fair scheduler takes: everything but the spurious wake-ups.
Progress == MainStep \/ \E t \in Workers : WorkerStep(t)

Next == Progress \/ MSpurious \/ \E t \in Workers : WSpurious(t)

\* One worker: every valid option set, and the sets that break one assertion.
Init == DriverInit({c \in Cfgs({1}) : ValidCfg(c)} \cup BadCfgs)

Spec == Init /\ [][Next]_vars


\* --------------------------------------------------- claims on the driver

Spawned == 0 .. (cfg.nb_threads - 1)

\* C4: with one worker and valid options, the report finds the measured size equal to
\* the populated size plus the worker's diff, and the process exits with code 0
\* (it neither dies nor hangs on the way).  Stated for the runs whose barrier was
\* initialised, so that a violation does not rest on the barrier of C18.
C4_SingleWorkerExitsZero ==
  (ValidCfg(cfg) /\ cfg.nb_threads = 1 /\ barrier.valid) =>
    /\ status \notin {"crashed", "hung"}
    /\ status = "exited" => ret = 0

\* C5: one worker, update-rate 100, alternate mode, initial-size 0, 2k operations: a
\* completed run made exactly k adds and k removes that all succeeded, both counters
\* are k, and the final size is 0.
C5_AlternateScenario ==
  ( /\ ValidCfg(cfg) /\ cfg.nb_threads = 1 /\ cfg.update = 100 /\ cfg.alternate # 0
    /\ cfg.initial = 0 /\ cfg.ops % 2 = 0
    /\ status = "exited" ) =>
    LET k == cfg.ops \div 2
    IN  /\ data[0].nb_add = k /\ data[0].nb_remove = k
        /\ hist[0].added = k /\ hist[0].removed = k
        /\ size = 0 /\ ret = 0

\* C6: every trace record carries the value passed to the set function it records; in
\* particular a removal record carries the value passed to set_remove.  (Stated for
\* the runs whose barrier was initialised, as C4.)
C6_RecordCarriesOperand ==
  barrier.valid => \A t \in Workers : call[t].fn # "none" => rec[t].val = call[t].arg

\* C7 as stated: in alternate mode the add counter equals the number of set_add calls
\* that returned true.  (Stated for the runs whose barrier was initialised, as C4.)
C7_AddCounterCountsSuccesses ==
  (cfg.alternate # 0 /\ barrier.valid) =>
    \A t \in Workers : data[t].nb_add = hist[t].added

\* C7 amended: in alternate mode the add counter is incremented by every set_add call,
\* successful or not, so it equals the number of set_add calls made and is at least the
\* number that returned true; only a successful add makes the value outstanding and
\* moves the size-delta, which is successful adds minus successful removes.
C7_AddCounterCountsCalls ==
  cfg.alternate # 0 =>
    \A t \in Workers :
      /\ data[t].nb_add = hist[t].adds
      /\ hist[t].added <= data[t].nb_add
      /\ data[t].diff = hist[t].added - hist[t].removed
      /\ (call[t].fn = "add" /\ ~call[t].res) => last[t] < 0

\* Witness of C7: an alternate-mode add failed and was counted all the same.
C7_Witness ==
  /\ cfg.alternate # 0 /\ status = "running" /\ barrier.valid
  /\ call[0].fn = "add" /\ ~call[0].res
  /\ data[0].nb_add = 1 /\ hist[0].added = 0 /\ last[0] < 0

\* C9: with valid options every worker runs to the end of its operation count; so a
\* running process in which some worker has not finished can always take a step
\* (a step of the code, not a spurious wake-up).
Finished(t) ==
  /\ pc[t] = "done"
  /\ data[t].nb_add + data[t].nb_remove + data[t].nb_contains = cfg.ops

C9_WorkersRunToCompletion ==
  (ValidCfg(cfg) /\ status = "running") =>
    \/ \A t \in Spawned : Finished(t)
    \/ ENABLED Progress

\* The part of C9 that holds: a worker that returned performed exactly ops operations.
C9_DoneMeansAllOps ==
  \A t \in Workers : pc[t] = "done" => Finished(t)

\* C10: no set_remove call unlinks or frees a sentinel: while the set exists the chain
\* from head starts with the minimum sentinel and ends with the maximum sentinel.
\* (Stated for the runs whose barrier was initialised, as C4.)
SentinelsInPlace(m, s) ==
  LET a == Chain(m, s, Len(m) + 1)
  IN  /\ m[s].live /\ m[s].val = VAL_MIN
      /\ m[a[Len(a)]].live /\ m[a[Len(a)]].val = VAL_MAX

C10_SentinelsNeverRemoved ==
  (set # NULL /\ status = "running" /\ ValidCfg(cfg) /\ barrier.valid) =>
    SentinelsInPlace(mem, set)

\* The second half of C10: set_contains never reports a sentinel value as a member.
C10_ContainsNeverReportsSentinel ==
  barrier.valid => \A t \in Workers : (call[t].fn = "contains" /\ call[t].res) => Between(call[t].arg)

\* A malformed configuration, as the options' documentation has it.
Malformed(c) ==
  \/ c.ops < 0
  \/ c.initial < 0
  \/ c.nb_threads <= 0
  \/ c.range <= 0
  \/ c.range < c.initial
  \/ c.update < 0 \/ c.update > 100

\* C15: a run with a malformed configuration never leaves the configure state: the
\* set is not created, nothing is added, no worker is spawned, nobody reaches the
\* barrier; the process is rejected (or about to be).
C15_MalformedRejected ==
  Malformed(cfg) =>
    /\ status \in {"running", "rejected"}
    /\ pc[MAIN] = "configure"
    /\ set = NULL /\ mem = << >>
    /\ \A t \in Workers : pc[t] = "idle" /\ data[t] = NoData
    /\ \A t \in Threads : entered[t] = 0

\* Witness of C15: a range smaller than the initial size was rejected.
C15_Witness ==
  /\ status = "rejected"
  /\ cfg.range > 0 /\ cfg.initial >= 0 /\ cfg.range < cfg.initial

\* A step in which worker t, in non-alternate mode, completes an update: call'[t] is
\* the set call it made.  The value is one draw of [1, range]; the call is set_add
\* when the roll was even and set_remove of that value when it was odd; it returned
\* what the set held; the matching counter moved by one and the record names the
\* operation and the value whatever the call returned; the size-delta moved only when
\* the call returned true.
C17_Update(t) ==
  LET c      == call'[t]
      before == set_contains(mem, set, c.arg).result
      d      == data[t]
  IN  /\ c.arg \in 1 .. cfg.range
      /\ val'[t] = c.arg
      /\ c.fn = (IF c.even THEN "add" ELSE "remove")
      /\ c.res = (IF c.even THEN ~before ELSE before)
      /\ c.res => set_contains(mem', set', c.arg).result = c.even
      /\ rec'[t] = [tag |-> IF c.even THEN 0 ELSE 1, val |-> c.arg]
      /\ data'[t] = [d EXCEPT
                       !.ops = @ - 1,
                       !.nb_add = IF c.even THEN @ + 1 ELSE @,
                       !.nb_remove = IF c.even THEN @ ELSE @ + 1,
                       !.diff = IF ~c.res THEN @ ELSE IF c.even THEN @ + 1 ELSE @ - 1]

C17_UpdateStep ==
  \A t \in Workers :
    ( /\ cfg.alternate = 0
      /\ pc[t] = "loop" /\ pc'[t] = "loop" /\ data'[t] # data[t]
      /\ call'[t].fn # "contains" ) => C17_Update(t)

\* C17: in non-alternate mode every update draws one value in [1, range], performs
\* set_add when the operation-class roll is even and set_remove on that same value
\* when it is odd, increments the corresponding counter and emits the corresponding
\* record whether or not the set operation succeeded, and changes the size-delta only
\* when it succeeded.
C17_NonAlternateUpdate == [][C17_UpdateStep]_vars

\* Witness of C17: in non-alternate mode an add and a remove have both failed and
\* both been counted and recorded, the size-delta staying 0.
C17_Witness ==
  /\ cfg.alternate = 0 /\ status = "running" /\ barrier.valid
  /\ call[0].fn = "remove" /\ ~call[0].res /\ ~call[0].even
  /\ rec[0] = [tag |-> 1, val |-> call[0].arg]
  /\ data[0].nb_add = 1 /\ data[0].nb_remove = 1
  /\ hist[0].added = 0 /\ data[0].diff = 0

\* C18: for every valid configuration (initial-size 0 included) the barrier has been
\* initialised for nb_threads + 1 participants, with arrival count 0, when the driver
\* starts spawning workers, and it is an initialised barrier that any thread crosses.
C18_BarrierInitialisedBeforeSpawn ==
  (ValidCfg(cfg) /\ status = "running") =>
    /\ (pc[MAIN] = "spawn" /\ mi = 0) => barrier = barrier_init(cfg.nb_threads + 1)
    /\ (\E t \in Threads : pc[t] # "idle" /\ t # MAIN) =>
          (barrier.valid /\ barrier.count = cfg.nb_threads + 1)
    /\ (\E t \in Threads : entered[t] > 0) => barrier.valid

\* The part of C18 that holds: with a populated set of at least one element the
\* barrier is initialised for nb_threads + 1 participants before the first spawn.
C18_InitialisedWhenPopulated ==
  (ValidCfg(cfg) /\ status = "running" /\ cfg.initial > 0 /\ pc[MAIN] = "spawn" /\ mi = 0) =>
    barrier = barrier_init(cfg.nb_threads + 1)


\* ------------------------------------- the workers, memory access by access
\* RaceSpec runs the driver with two workers and splits every set function at its
\* accesses to the shared chain: the traversal reads one node per step, the write of
\* prev->next is a step, free(next) is a step.  The worker's bookkeeping after the
\* call touches only its own thread_data_t and is part of the call's last step.
\*
\* Dereferencing NULL kills the process.  Touching a freed node is undefined: the
\* process either dies or goes on in a state of which nothing is known ("undefined",
\* which the model does not follow further).  A freed node that malloc has handed out
\* again is read and written as the node it now is.  No spurious wake-up is delivered
\* in RaceSpec: the workers start together, after the driver has crossed the barrier.

RaceCfgs ==
  {c \in [ops : {1, 2}, initial : {1}, nb_threads : {2}, range : {2},
          update : {50, 100}, alternate : {0, 1}] : ValidCfg(c)}

RaceInit == DriverInit(RaceCfgs)

raceFrame == << cfg, set, mi, size, ret, barrierVars, setHist >>

Undefined ==
  /\ status' \in {"crashed", "undefined"}
  /\ UNCHANGED << mem, pc, workerVars >>

Died ==
  /\ Crash
  /\ UNCHANGED pc

\* The call begins: prev = set->head; next = prev->next;
Begin(t, fn, arg, v, even) ==
  /\ call' = [call EXCEPT ![t] = [fn |-> fn, arg |-> arg, res |-> FALSE, even |-> even]]
  /\ val' = [val EXCEPT ![t] = v]
  /\ wprev' = [wprev EXCEPT ![t] = set]
  /\ wnext' = [wnext EXCEPT ![t] = mem[set].next]
  /\ Goto(t, "walk")
  /\ UNCHANGED << status, mem, data, last, rec, hist >>

RAltAdd(t) ==
  /\ Working(t)
  /\ cfg.alternate # 0 /\ last[t] < 0
  /\ \E op \in Rolls, r \in rand_range(cfg.range) :
       op < cfg.update /\ Begin(t, "add", r + 1, r + 1, FALSE)
  /\ UNCHANGED raceFrame

RAltRemove(t) ==
  /\ Working(t)
  /\ cfg.alternate # 0 /\ last[t] >= 0
  /\ \E op \in Rolls : op < cfg.update /\ Begin(t, "remove", last[t], val[t], FALSE)
  /\ UNCHANGED raceFrame

RRandAdd(t) ==
  /\ Working(t)
  /\ cfg.alternate = 0
  /\ \E op \in Rolls, r \in rand_range(cfg.range) :
       op < cfg.update /\ op % 2 = 0 /\ Begin(t, "add", r + 1, r + 1, op % 2 = 0)
  /\ UNCHANGED raceFrame

RRandRemove(t) ==
  /\ Working(t)
  /\ cfg.alternate = 0
  /\ \E op \in Rolls, r \in rand_range(cfg.range) :
       op < cfg.update /\ op % 2 = 1 /\ Begin(t, "remove", r + 1, r + 1, op % 2 = 0)
  /\ UNCHANGED raceFrame

RLookup(t) ==
  /\ Working(t)
  /\ \E op \in Rolls, r \in rand_range(cfg.range) :
       op >= cfg.update /\ Begin(t, "contains", r + 1, r + 1, FALSE)
  /\ UNCHANGED raceFrame

\* The set function returned res, having left the heap as m: test()'s bookkeeping.
Finish(t, res, m) ==
  LET r  == [ok |-> TRUE, result |-> res, mem |-> m]
      fn == call[t].fn
  IN  /\ Goto(t, "loop")
      /\ IF fn = "add"
         THEN Done(t, r, AfterAdd(data[t], res),
                   IF cfg.alternate # 0 /\ res THEN val[t] ELSE last[t],
                   val[t], 0, fn, call[t].arg, call[t].even)
         ELSE IF fn = "remove"
         THEN Done(t, r, AfterRemove(data[t], res),
                   IF cfg.alternate # 0 THEN -1 ELSE last[t],
                   val[t], 1, fn, call[t].arg, call[t].even)
         ELSE Done(t, r, AfterContains(data[t], res), last[t], val[t], 2, fn,
                   call[t].arg, call[t].even)

\* while (next->val < val) { prev = next; next = prev->next; }  result = ...
RWalk(t) ==
  /\ status = "running" /\ t \in Workers /\ pc[t] = "walk"
  /\ LET n == wnext[t]
         v == call[t].arg
     IN  IF n = NULL THEN Died
         ELSE IF ~Valid(mem, n) THEN Undefined
         ELSE IF mem[n].val < v
         THEN /\ wprev' = [wprev EXCEPT ![t] = n]
              /\ wnext' = [wnext EXCEPT ![t] = mem[n].next]
              /\ UNCHANGED << status, mem, pc, data, last, val, rec, call, hist >>
         ELSE IF call[t].fn = "contains" THEN Finish(t, mem[n].val = v, mem)
         ELSE IF call[t].fn = "add" /\ mem[n].val # v
         THEN /\ Goto(t, "link")
              /\ UNCHANGED << status, mem, workerVars >>
         ELSE IF call[t].fn = "remove" /\ mem[n].val = v
         THEN /\ Goto(t, "unlink")
              /\ UNCHANGED << status, mem, workerVars >>
         ELSE Finish(t, FALSE, mem)
  /\ UNCHANGED raceFrame

\* set_add: prev->next = new_node(val, next, 0);
RLink(t) ==
  /\ status = "running" /\ t \in Workers /\ pc[t] = "link"
  /\ IF ~Valid(mem, wprev[t]) THEN Undefined
     ELSE LET nn == new_node(mem, call[t].arg, wnext[t])
          IN  Finish(t, TRUE, [nn.mem EXCEPT ![wprev[t]].next = nn.node])
  /\ UNCHANGED raceFrame

\* set_remove: prev->next = next->next;
RUnlink(t) ==
  /\ status = "running" /\ t \in Workers /\ pc[t] = "unlink"
  /\ IF ~Valid(mem, wprev[t]) \/ ~Valid(mem, wnext[t]) THEN Undefined
     ELSE /\ mem' = [mem EXCEPT ![wprev[t]].next = mem[wnext[t]].next]
          /\ Goto(t, "free")
          /\ UNCHANGED << status, workerVars >>
  /\ UNCHANGED raceFrame

\* set_remove: free(next);
RFree(t) ==
  /\ status = "running" /\ t \in Workers /\ pc[t] = "free"
  /\ IF ~Valid(mem, wnext[t]) THEN Undefined
     ELSE Finish(t, TRUE, free_node(mem, wnext[t]))
  /\ UNCHANGED raceFrame

RaceStep(t) ==
  \/ WCross(t) \/ WReturn(t)
  \/ RAltAdd(t) \/ RAltRemove(t) \/ RRandAdd(t) \/ RRandRemove(t) \/ RLookup(t)
  \/ RWalk(t) \/ RLink(t) \/ RUnlink(t) \/ RFree(t)
  \/ WExit(t)

RaceNext == MainStep \/ \E t \in Workers : RaceStep(t)

RaceSpec == RaceInit /\ [][RaceNext]_vars


\* ------------------------------------------------- claims on racing workers

\* Successful adds minus successful removes, over all workers.
NetUpdates == Sum([t \in Workers |-> hist[t].added - hist[t].removed], Workers)

Wrote(t) == hist[t].added + hist[t].removed >= 1

\* C8: with two workers whose set functions interleave, a run can lose an update that
\* returned success and then signals inconsistency (C8_LostUpdate is such a run).
\* What holds of every run that exits: the expected size is the populated size plus
\* the updates that returned success, and the run signals inconsistency only if two
\* different workers each made a successful update.
C8_InconsistencyIsARace ==
  status = "exited" =>
    /\ size = cfg.initial + NetUpdates
    /\ ret = 1 => \E t, u \in Spawned : t # u /\ Wrote(t) /\ Wrote(u)

\* Witness of C8: both workers' set_add returned true, nothing was ever removed or
\* freed, and the measured size differs from the expected one: one splice was lost.
C8_LostUpdate ==
  /\ status = "exited" /\ ret = 1
  /\ cfg.nb_threads = 2
  /\ \A t \in Workers : hist[t].removed = 0
  /\ hist[0].added = 1 /\ hist[1].added = 1
  /\ size = cfg.initial + 2


\* ------------------------------------------------ the driver, several workers
\* MultiSpec runs the same program with one worker and with two, every set function
\* running to completion in one step (set operations executed one at a time).

MultiCfgs ==
  {c \in [ops : {2}, initial : {1}, nb_threads : {1, 2},
          range : {2, INT_MAX}, update : UpdateRates, alternate : {0, 1}] : ValidCfg(c)}

MultiInit == DriverInit(MultiCfgs)

MultiSpec == MultiInit /\ [][Next]_vars

\* The populate phase is over.
Populated == pc[MAIN] \notin {"configure", "populate"}

\* With update-rate 0 no worker ever calls set_add or set_remove: its add and remove
\* counters and its size-delta stay 0, found <= lookups, every record is a lookup's,
\* no set function fails, and the report finds the populated size.
C11_OnlyLookups ==
  cfg.update = 0 =>
    /\ status \notin {"crashed", "hung"}
    /\ \A t \in Workers :
         /\ data[t].nb_add = 0 /\ data[t].nb_remove = 0 /\ data[t].diff = 0
         /\ data[t].nb_found <= data[t].nb_contains
         /\ hist[t] = NoHist
         /\ call[t].fn \in {"none", "contains"}
         /\ rec[t].tag \in {-1, 2}
    /\ status = "exited" => (ret = 0 /\ size = cfg.initial)

\* With update-rate 0 no step after the populate phase changes the heap, until the
\* driver deletes the set on exit.
C11_SetUntouched ==
  (cfg.update = 0 /\ Populated /\ status' = "running") => mem' = mem

\* C11: with update-rate 0 and any number of workers every operation of every worker
\* is a lookup: the add and remove counters and the size-deltas stay 0, found <=
\* lookups, and the set is never changed after the populate phase (the final size is
\* the populated size).
C11_ZeroUpdateRate == []C11_OnlyLookups /\ [][C11_SetUntouched]_vars

\* Witness of C11: two workers each made two lookups, one of them found a value, the
\* other found none, and the run exited.
C11_Witness ==
  /\ cfg.update = 0 /\ cfg.nb_threads = 2 /\ status = "exited"
  /\ data[0].nb_contains = 2 /\ data[1].nb_contains = 2
  /\ data[0].nb_found >= 1 /\ data[1].nb_found = 0

\* The driver is in (or past) the report loop, where it reads data[i], only when
\* every worker it spawned has returned from test().
C16_ReadAfterJoin ==
  pc[MAIN] \in {"report", "done"} => \A t \in Spawned : pc[t] = "done"

\* A step that changes the thread_data_t of a worker that has been started is a step
\* of that worker in its operation loop: neither the driver nor another worker moves.
C16_OwnedByWorker ==
  \A t \in Workers :
    (pc[t] # "idle" /\ data'[t] # data[t]) =>
      /\ pc[t] = "loop"
      /\ pc'[MAIN] = pc[MAIN] /\ mi' = mi /\ size' = size /\ ret' = ret
      /\ \A u \in Workers \ {t} :
           data'[u] = data[u] /\ pc'[u] = pc[u] /\ last'[u] = last[u]

\* C16: the driver reads a worker's counters only after that worker has terminated
\* and been joined; while a worker runs, its context is written by that worker only.
C16_ContextOwnership == []C16_ReadAfterJoin /\ [][C16_OwnedByWorker]_vars

\* Witness of C16: the driver has read the counters of the first of two workers, which
\* both performed updates and have both terminated.
C16_Witness ==
  /\ status = "running" /\ pc[MAIN] = "report" /\ mi = 1 /\ cfg.nb_threads = 2
  /\ pc[0] = "done" /\ pc[1] = "done"
  /\ data[0].nb_add >= 1 /\ data[1].nb_remove >= 1
  /\ size = cfg.initial + data[0].diff

\* The values the set holds: those of the chain between the two sentinels.
Elems(m, s) ==
  LET c == ChainVals(m, s) IN {c[k] : k \in 2 .. (Len(c) - 1)}

\* The values the workers have inserted and not yet removed (alternate mode).
Outstanding == {last[t] : t \in {u \in Workers : last[u] >= 0}}

\* In alternate mode, once populated: the chain is well formed, the workers'
\* outstanding values are in the set and pairwise distinct, the set holds the
\* populated number of values besides them, every set_remove call made so far
\* returned true, and no set function fails.
C19_Content ==
  (cfg.alternate # 0 /\ Populated) =>
    /\ status \notin {"crashed", "hung"}
    /\ \A t \in Workers : data[t].nb_remove = hist[t].removed
    /\ status = "running" =>
         /\ Sorted(mem, set)
         /\ Outstanding \subseteq Elems(mem, set)
         /\ \A t, u \in Workers : (t # u /\ last[t] >= 0) => last[t] # last[u]
         /\ Cardinality(Elems(mem, set)) = cfg.initial + Cardinality(Outstanding)
         /\ set_size(mem, set).size >= cfg.initial
         /\ set_size(mem, set).size <= cfg.initial + cfg.nb_threads

\* In alternate mode no step after the populate phase changes the values the set
\* holds besides the outstanding ones: the initial population stays.
C19_PopulationKept ==
  (cfg.alternate # 0 /\ Populated /\ status' = "running") =>
    Elems(mem', set') \ Outstanding' = Elems(mem, set) \ Outstanding

C20_PopulatedSet ==
  (ValidCfg(cfg) /\ status = "running") =>
    /\ pc[MAIN] = "populate" =>
         (Cardinality(Elems(mem, set)) = mi /\ Elems(mem, set) \subseteq 1 .. cfg.range)
    /\ pc[MAIN] = "binit" =>
         /\ Sorted(mem, set)
         /\ Len(ChainVals(mem, set)) = cfg.initial + 2
         /\ Cardinality(Elems(mem, set)) = cfg.initial
         /\ Elems(mem, set) \subseteq 1 .. cfg.range
         /\ size = cfg.initial
         /\ set_size(mem, set) = [ok |-> TRUE, loops |-> FALSE, size |-> cfg.initial]

\* One draw of the populate loop: either it adds one new value of [1, range] and
\* counts it, or it changes neither the set nor the progress counter.
C20_Draw ==
  (pc[MAIN] = "populate" /\ pc'[MAIN] = "populate") =>
    \/ mem' = mem /\ mi' = mi
    \/ /\ mi' = mi + 1
       /\ \E v \in (1 .. cfg.range) \ Elems(mem, set) :
            Elems(mem', set') = Elems(mem, set) \cup {v}

\* C20: when the populate phase ends the set holds exactly initial-size distinct
\* values, each in [1, range], and set_size() equals initial-size; a draw that hits
\* a value already present changes neither the set nor the progress counter.
C20_Populate == []C20_PopulatedSet /\ [][C20_Draw]_vars

\* Witness of C20: the populate phase has ended with two values drawn from a range
\* that holds more than two.
C20_Witness ==
  /\ status = "running" /\ pc[MAIN] = "binit"
  /\ cfg.initial = 2 /\ cfg.range > 2 /\ size = 2
  /\ Cardinality(Elems(mem, set)) = 2

=============================================================================
